---- MODULE Spec2Model ----
\* simpleaf: the executable resolver (utils/prog_utils.rs), the permit list
\* fetcher and the index / quant pipeline orchestrator (main.rs).
EXTENDS Integers, Sequences, FiniteSets, TLC

\* ------------------------------------------------------------------ bounds

\* largest single-digit version component tried (10 is tried as well)
MaxComp == 6
\* exit statuses of child processes range over 0..MaxExit
MaxExit == 2
\* requested --threads values range over 1..MaxThreads
MaxThreads == 3
\* the host's available parallelism ranges over 1..MaxPar
MaxPar == 2
\* --forced-cells / --expect-cells values range over 1..MaxCells
MaxCells == 1

\* ------------------------------------------------------- program constants

\* let min_cells = 10usize
min_cells == 10
\* rlen - 5
RlenTrim == 5
\* default_value_t = 16 of --threads
DefaultThreads == 16

\* ----------------------------------------------------------------- strings
\* A string is a sequence of one-character strings.

DigitChars == <<"0", "1", "2", "3", "4", "5", "6", "7", "8", "9">>
LetterChars == {"a", "b", "s", "v"}

IsDigit(c) == \E i \in 1..10 : DigitChars[i] = c
DigitVal(c) == (CHOOSE i \in 1..10 : DigitChars[i] = c) - 1
IsWhitespace(c) == c \in {" ", "\n"}
IsIdentChar(c) == IsDigit(c) \/ c \in LetterChars \/ c = "-"

RECURSIVE FormatNat(_)
\* format!("{}", n) of an unsigned integer
FormatNat(n) ==
  IF n < 10 THEN <<DigitChars[n + 1]>>
  ELSE FormatNat(n \div 10) \o <<DigitChars[(n % 10) + 1]>>

RECURSIVE ParseNat(_)
\* the value of a non-empty string of digits
ParseNat(s) ==
  IF Len(s) = 1 THEN DigitVal(s[1])
  ELSE 10 * ParseNat(SubSeq(s, 1, Len(s) - 1)) + DigitVal(s[Len(s)])

\* index of the first occurrence of c in s, 0 when there is none
FirstIndex(s, c) ==
  IF \E i \in 1..Len(s) : s[i] = c
  THEN CHOOSE i \in 1..Len(s) : s[i] = c /\ \A j \in 1..(i - 1) : s[j] # c
  ELSE 0

RECURSIVE SplitOn(_, _)
\* s split at every occurrence of c (empty pieces kept)
SplitOn(s, c) ==
  LET i == FirstIndex(s, c) IN
  IF i = 0 THEN <<s>>
  ELSE <<SubSeq(s, 1, i - 1)>> \o SplitOn(SubSeq(s, i + 1, Len(s)), c)

RECURSIVE SplitWhitespaceFrom(_, _, _)
SplitWhitespaceFrom(s, i, cur) ==
  IF i > Len(s) THEN (IF cur = <<>> THEN <<>> ELSE <<cur>>)
  ELSE IF IsWhitespace(s[i])
       THEN (IF cur = <<>> THEN <<>> ELSE <<cur>>) \o SplitWhitespaceFrom(s, i + 1, <<>>)
       ELSE SplitWhitespaceFrom(s, i + 1, Append(cur, s[i]))

\* str::split_whitespace: the maximal runs of non-whitespace characters
split_whitespace(s) == SplitWhitespaceFrom(s, 1, <<>>)

\* ---------------------------------------------------------------- versions

NoVersion == [ok |-> FALSE, major |-> 0, minor |-> 0, patch |-> 0, pre |-> <<>>, build |-> <<>>]

\* a numeric identifier: digits, without a leading zero
IsNumericId(p) ==
  /\ Len(p) > 0
  /\ \A i \in 1..Len(p) : IsDigit(p[i])
  /\ (Len(p) > 1 => p[1] # "0")

AllDigits(p) == \A i \in 1..Len(p) : IsDigit(p[i])

\* a pre-release: dot-separated non-empty identifiers, numeric ones without leading zeros
IsValidPre(p) ==
  LET ids == SplitOn(p, ".") IN
  \A k \in 1..Len(ids) :
    /\ Len(ids[k]) > 0
    /\ \A i \in 1..Len(ids[k]) : IsIdentChar(ids[k][i])
    /\ (AllDigits(ids[k]) => IsNumericId(ids[k]))

\* build metadata: dot-separated non-empty identifiers
IsValidBuild(b) ==
  LET ids == SplitOn(b, ".") IN
  \A k \in 1..Len(ids) :
    /\ Len(ids[k]) > 0
    /\ \A i \in 1..Len(ids[k]) : IsIdentChar(ids[k][i])

\* semver::Version::parse: MAJOR.MINOR.PATCH[-PRE][+BUILD]
VersionParse(tok) ==
  LET plus  == FirstIndex(tok, "+")
      head  == IF plus = 0 THEN tok ELSE SubSeq(tok, 1, plus - 1)
      build == IF plus = 0 THEN <<>> ELSE SubSeq(tok, plus + 1, Len(tok))
      dash  == FirstIndex(head, "-")
      core  == IF dash = 0 THEN head ELSE SubSeq(head, 1, dash - 1)
      pre   == IF dash = 0 THEN <<>> ELSE SubSeq(head, dash + 1, Len(head))
      parts == SplitOn(core, ".")
  IN IF /\ Len(parts) = 3
        /\ \A k \in 1..3 : IsNumericId(parts[k])
        /\ (dash # 0 => IsValidPre(pre))
        /\ (plus # 0 => IsValidBuild(build))
     THEN [ok |-> TRUE, major |-> ParseNat(parts[1]), minor |-> ParseNat(parts[2]),
           patch |-> ParseNat(parts[3]), pre |-> pre, build |-> build]
     ELSE NoVersion

\* format!("{}", v) of a parsed version
VersionFormat(v) ==
  FormatNat(v.major) \o <<".">> \o FormatNat(v.minor) \o <<".">> \o FormatNat(v.patch)
    \o (IF v.pre = <<>> THEN <<>> ELSE <<"-">> \o v.pre)
    \o (IF v.build = <<>> THEN <<>> ELSE <<"+">> \o v.build)

CharRank(c) ==
  IF c = "-" THEN 0
  ELSE IF IsDigit(c) THEN 1 + DigitVal(c)
  ELSE IF c = "." THEN 11
  ELSE IF c = "a" THEN 12 ELSE IF c = "b" THEN 13 ELSE IF c = "s" THEN 14 ELSE 15

RECURSIVE SeqLess(_, _)
SeqLess(a, b) ==
  IF b = <<>> THEN FALSE
  ELSE IF a = <<>> THEN TRUE
  ELSE IF CharRank(a[1]) # CharRank(b[1]) THEN CharRank(a[1]) < CharRank(b[1])
  ELSE SeqLess(Tail(a), Tail(b))

\* Prerelease ordering: the empty pre-release is greater than every other one
PreLess(a, b) ==
  IF a = b THEN FALSE
  ELSE IF a = <<>> THEN FALSE
  ELSE IF b = <<>> THEN TRUE
  ELSE SeqLess(a, b)

\* Comparator::matches, Op::Exact part
matches_exact(cmp, ver) ==
  /\ ver.major = cmp.major /\ ver.minor = cmp.minor /\ ver.patch = cmp.patch
  /\ ver.pre = cmp.pre

\* Op::Greater
matches_greater(cmp, ver) ==
  IF ver.major # cmp.major THEN ver.major > cmp.major
  ELSE IF ver.minor # cmp.minor THEN ver.minor > cmp.minor
  ELSE IF ver.patch # cmp.patch THEN ver.patch > cmp.patch
  ELSE PreLess(cmp.pre, ver.pre)

\* Op::Less
matches_less(cmp, ver) ==
  IF ver.major # cmp.major THEN ver.major < cmp.major
  ELSE IF ver.minor # cmp.minor THEN ver.minor < cmp.minor
  ELSE IF ver.patch # cmp.patch THEN ver.patch < cmp.patch
  ELSE PreLess(ver.pre, cmp.pre)

matches_comparator(cmp, ver) ==
  IF cmp.op = ">=" THEN matches_exact(cmp, ver) \/ matches_greater(cmp, ver)
  ELSE matches_less(cmp, ver)

\* a version with a pre-release tag may only satisfy a requirement one of whose
\* comparators names the same major.minor.patch with a pre-release tag
pre_is_compatible(cmp, ver) ==
  /\ cmp.major = ver.major /\ cmp.minor = ver.minor /\ cmp.patch = ver.patch
  /\ cmp.pre # <<>>

\* VersionReq::matches
req_matches(req, ver) ==
  /\ \A k \in 1..Len(req) : matches_comparator(req[k], ver)
  /\ (ver.pre # <<>> => \E k \in 1..Len(req) : pre_is_compatible(req[k], ver))

Cmp(o, a, b, c) == [op |-> o, major |-> a, minor |-> b, patch |-> c, pre |-> <<>>]

\* VersionReq::parse(">=1.5.1, <2.0.0") and the two others
SalmonReq == <<Cmp(">=", 1, 5, 1), Cmp("<", 2, 0, 0)>>
AlevinFryReq == <<Cmp(">=", 0, 4, 1), Cmp("<", 1, 0, 0)>>
PyroeReq == <<Cmp(">=", 0, 6, 2), Cmp("<", 1, 0, 0)>>

Tools == {"salmon", "alevin_fry", "pyroe"}
ReqOf(t) == IF t = "salmon" THEN SalmonReq ELSE IF t = "alevin_fry" THEN AlevinFryReq ELSE PyroeReq

\* the result of run_fun!($st --version): Err when the program could not be
\* spawned or exited non-zero, else Ok(its standard output)
OutErrNoSpawn == [ok |-> FALSE, spawned |-> FALSE, text |-> <<>>]
OutErrExit == [ok |-> FALSE, spawned |-> TRUE, text |-> <<>>]
OutOk(s) == [ok |-> TRUE, spawned |-> TRUE, text |-> s]

\* (mutant) the first token instead of the last
FirstToken(toks) == toks[1]

\* x.last()
LastToken(toks) == toks[Len(toks)]

\* Result<Version> of check_version_constraints; kind is "ok", "err" or "panic"
VcOk(v) == [kind |-> "ok", msg |-> "", version |-> v]
VcErr(m) == [kind |-> "err", msg |-> m, version |-> NoVersion]
VcPanic == [kind |-> "panic", msg |-> "unwrap on Err", version |-> NoVersion]

check_version_constraints(req, prog_output) ==
  IF ~prog_output.ok THEN VcErr("could not parse program output")
  ELSE LET x == split_whitespace(prog_output.text) IN
       IF x = <<>> THEN VcErr("invalid version string")
       ELSE LET parsed_version == VersionParse(LastToken(x)) IN
            IF ~parsed_version.ok THEN VcPanic
            ELSE IF req_matches(req, parsed_version) THEN VcOk(parsed_version)
            ELSE VcErr("does not satisfy constraints")

\* ------------------------------------------------------------------- state

VARIABLES
  pc,           \* position of main: [at, stage]
  exe,          \* per tool, how search_for_executable resolved it: "unset", "env", "path"
  rp,           \* ReqProgs: per tool an Option<ProgInfo>
  args,         \* the parsed command line (the options that decide control flow)
  env_home,     \* whether $ALEVIN_FRY_HOME is set
  fs,           \* the paths that exist (permit lists relative to $ALEVIN_FRY_HOME)
  info_written, \* whether this run has written index_info.json
  started,      \* the child processes started so far, in order
  running,      \* the child processes running now
  exit,         \* per pipeline process, its exit status (-1: has not exited)
  max_par,      \* what std::thread::available_parallelism() returned
  filter_meth,  \* the CellFilterMethod
  pl_res,       \* what get_permit_if_absent returned
  outcome,      \* how the run ended
  vc            \* one call of check_version_constraints: [phase, tool, out, res]

vars == <<pc, exe, rp, args, env_home, fs, info_written, started, running, exit,
          max_par, filter_meth, pl_res, outcome, vc>>

At(a) == [at |-> a, stage |-> ""]
AtStage(a, s) == [at |-> a, stage |-> s]

ToolOrder == <<"salmon", "alevin_fry", "pyroe">>
ToolIndex(t) == CHOOSE i \in 1..3 : ToolOrder[i] = t

NoProg == [some |-> FALSE, exe_path |-> "", version |-> <<>>]
SomeProg(p, v) == [some |-> TRUE, exe_path |-> p, version |-> v]

None == [some |-> FALSE, val |-> 0]
Some(n) == [some |-> TRUE, val |-> n]

\* CellFilterMethod
KneeFinding == [kind |-> "KneeFinding", n |-> 0, path |-> ""]
ForceCells(n) == [kind |-> "ForceCells", n |-> n, path |-> ""]
ExpectCells(n) == [kind |-> "ExpectCells", n |-> n, path |-> ""]
UnfilteredExternalList(p, m) == [kind |-> "UnfilteredExternalList", n |-> m, path |-> p]

\* PermitListResult, and the two errors get_permit_if_absent can return
PlNone == [kind |-> "none", path |-> ""]
DownloadSuccessful(p) == [kind |-> "DownloadSuccessful", path |-> p]
AlreadyPresent(p) == [kind |-> "AlreadyPresent", path |-> p]
UnregisteredChemistry == [kind |-> "UnregisteredChemistry", path |-> ""]
PlConfigError == [kind |-> "ConfigError", path |-> ""]
PlIoError == [kind |-> "IoError", path |-> ""]

\* how a run ends
Pending == [kind |-> "none", what |-> "", stage |-> "", status |-> 0]
Success == [kind |-> "ok", what |-> "", stage |-> "", status |-> 0]
Failure(w) == [kind |-> "err", what |-> w, stage |-> "", status |-> 0]
StageFailure(s, st) == [kind |-> "err", what |-> "StageFailure", stage |-> s, status |-> st]
Panic(w) == [kind |-> "panic", what |-> w, stage |-> "", status |-> 0]
UsageError == [kind |-> "usage", what |-> "clap", stage |-> "", status |-> 2]

NoFilter == [kind |-> "", n |-> 0, path |-> ""]
Proc(n) == [name |-> n, threads |-> 0, filter |-> NoFilter]
ProcT(n, t) == [name |-> n, threads |-> t, filter |-> NoFilter]
ProcF(n, f) == [name |-> n, threads |-> 0, filter |-> f]

ProbeName(t) == IF t = "salmon" THEN "salmon --version"
                ELSE IF t = "alevin_fry" THEN "alevin-fry --version" ELSE "pyroe --version"
ProbeNames == {ProbeName(t) : t \in Tools}

QuantOrder == <<"mapping", "generate-permit-list", "collate", "quant">>
IndexOrder == <<"make-splici", "salmon-index">>
QuantStages == {QuantOrder[i] : i \in 1..4}
IndexStages == {IndexOrder[i] : i \in 1..2}
PipelineStages == QuantStages \cup IndexStages
ExitNames == PipelineStages \cup {"wget"}

Names(seq) == {seq[i].name : i \in 1..Len(seq)}
Count(seq, n) == Cardinality({i \in 1..Len(seq) : seq[i].name = n})

NoArgs == [command |-> "", knee |-> FALSE, unfiltered_pl |-> FALSE, forced_cells |-> None,
           expect_cells |-> None, chemistry |-> "", threads |-> 0, rlen |-> 0]

\* ------------------------------------------------------ executable resolver

\* search_for_executable: the environment variable wins, else the PATH
search_for_executable(env_set, on_path) ==
  IF env_set THEN "env" ELSE IF on_path THEN "path" ELSE "none"

\* the `--version` outputs tried in a run
Str_s == <<"s", " ">>
ProbeOutputs ==
  { OutErrNoSpawn, OutErrExit, OutOk(<<>>),
    OutOk(Str_s \o <<"v", "1">>),
    OutOk(Str_s \o <<"0", ".", "4", ".", "0">>),
    OutOk(Str_s \o <<"0", ".", "6", ".", "2", "\n">>),
    OutOk(Str_s \o <<"1", ".", "5", ".", "1">>),
    OutOk(<<"1", ".", "6", ".", "0", "-", "a">>) }

\* where get_required_progs goes after the search for tool t succeeded
AfterSearch(t) ==
  IF ToolIndex(t) < 3 THEN AtStage("search", ToolOrder[ToolIndex(t) + 1])
  ELSE AtStage("probe", ToolOrder[1])

\* where get_required_progs goes after tool t was validated
AfterProbe(t) ==
  IF ToolIndex(t) < 3 THEN AtStage("probe", ToolOrder[ToolIndex(t) + 1])
  ELSE At("parse")

\* let X_exe = Some(search_for_executable(..)?)
Search(t) ==
  /\ pc = AtStage("search", t)
  /\ \E env_set \in BOOLEAN, on_path \in BOOLEAN :
       LET r == search_for_executable(env_set, on_path) IN
       IF r = "none"
       THEN /\ outcome' = Failure("ResolutionError")
            /\ pc' = At("done")
            /\ exe' = exe
       ELSE /\ exe' = [exe EXCEPT ![t] = r]
            /\ pc' = AfterSearch(t)
            /\ outcome' = outcome
  /\ UNCHANGED <<rp, args, env_home, fs, info_written, started, running, exit, max_par,
                 filter_meth, pl_res, vc>>

\* (mutant) the Err of a version check is not propagated
ProbeOutcomeIgnoresErr(res) ==
  IF res.kind = "panic" THEN Panic("Version::parse unwrap") ELSE Pending

\* what main does with the Result of one version check: `?` on Err, the
\* unwrap's panic, or the ProgInfo stored in rp
ProbeOutcome(res) ==
  IF res.kind = "ok" THEN Pending
  ELSE IF res.kind = "panic" THEN Panic("Version::parse unwrap")
  ELSE Failure("VersionError")

\* if let Some(x) = x_exe { run_fun!($st --version); check_version_constraints(..)?; rp.x = Some(..) }
Probe(t) ==
  /\ pc = AtStage("probe", t)
  /\ \E out \in ProbeOutputs :
       LET res == check_version_constraints(ReqOf(t), out)
           o   == ProbeOutcome(res) IN
       /\ started' = IF out.spawned THEN Append(started, Proc(ProbeName(t))) ELSE started
       /\ outcome' = o
       /\ IF o.kind = "none"
          THEN /\ rp' = [rp EXCEPT ![t] = SomeProg(exe[t], VersionFormat(res.version))]
               /\ pc' = AfterProbe(t)
          ELSE /\ rp' = rp
               /\ pc' = At("done")
  /\ UNCHANGED <<exe, args, env_home, fs, info_written, running, exit, max_par,
                 filter_meth, pl_res, vc>>

\* ------------------------------------------------------------ command line

Chemistries == {"10xv2", "10xv3", "other"}
CellCounts == {None} \cup {Some(n) : n \in 1..MaxCells}
RLens == {RlenTrim - 1, 91}

IndexArgs ==
  { [NoArgs EXCEPT !.command = "index", !.threads = t, !.rlen = r] :
      t \in (1..MaxThreads) \cup {DefaultThreads}, r \in RLens }

QuantArgs ==
  { [NoArgs EXCEPT !.command = "quant", !.knee = k, !.unfiltered_pl = u, !.forced_cells = f,
                   !.expect_cells = e, !.chemistry = c, !.threads = DefaultThreads] :
      k \in BOOLEAN, u \in BOOLEAN, f \in CellCounts, e \in CellCounts, c \in Chemistries }

\* the members of the "filter" ArgGroup present on the command line
FilterSupplied(a) ==
  (IF a.knee THEN {"knee"} ELSE {}) \cup
  (IF a.unfiltered_pl THEN {"unfiltered-pl"} ELSE {}) \cup
  (IF a.forced_cells.some THEN {"forced-cells"} ELSE {}) \cup
  (IF a.expect_cells.some THEN {"expect-cells"} ELSE {})

\* (mutant) a required group whose members do not conflict
FilterGroupMultiple(a) == Cardinality(FilterSupplied(a)) >= 1

\* ArgGroup::new("filter").required(true): one member is required, and members
\* of a group that is not `multiple` conflict with each other
FilterGroupOk(a) == Cardinality(FilterSupplied(a)) = 1

CliValid(a) == a.command = "quant" => FilterGroupOk(a)

\* let cli_args = Cli::parse(); match cli_args.command
CliParse ==
  /\ pc = At("parse")
  /\ \E a \in IndexArgs \cup QuantArgs :
       /\ args' = a
       /\ IF ~CliValid(a)
          THEN outcome' = UsageError /\ pc' = At("done")
          ELSE /\ outcome' = outcome
               /\ pc' = IF a.command = "index" THEN At("i_mkdir_output") ELSE At("q_filter")
  /\ UNCHANGED <<exe, rp, env_home, fs, info_written, started, running, exit, max_par,
                 filter_meth, pl_res, vc>>

\* ---------------------------------------------------------- index workflow

\* let r = run_fun!(mkdir -p $output)?; then `rlen - 5` on a u32, which panics
\* in a build with overflow checks and wraps in one without
IndexMkdirOutput ==
  /\ pc = At("i_mkdir_output")
  /\ started' = Append(started, Proc("mkdir"))
  /\ \E ok \in BOOLEAN, overflow_checks \in BOOLEAN :
       IF ~ok
       THEN outcome' = Failure("CmdError") /\ pc' = At("done") /\ fs' = fs
       ELSE /\ fs' = fs \cup {"output"}
            /\ IF args.rlen < RlenTrim /\ overflow_checks
               THEN outcome' = Panic("attempt to subtract with overflow") /\ pc' = At("done")
               ELSE outcome' = outcome /\ pc' = At("i_mkdir_ref")
  /\ UNCHANGED <<exe, rp, args, env_home, info_written, running, exit, max_par,
                 filter_meth, pl_res, vc>>

\* let r = run_fun!(mkdir -p $outref)?
IndexMkdirRef ==
  /\ pc = At("i_mkdir_ref")
  /\ started' = Append(started, Proc("mkdir"))
  /\ \E ok \in BOOLEAN :
       IF ~ok
       THEN outcome' = Failure("CmdError") /\ pc' = At("done") /\ fs' = fs
       ELSE fs' = fs \cup {"output/ref"} /\ outcome' = outcome /\ pc' = At("i_write_info")
  /\ UNCHANGED <<exe, rp, args, env_home, info_written, running, exit, max_par,
                 filter_meth, pl_res, vc>>

\* (mutant) the Err of the write is dropped
AfterWriteInfoIgnoresErr(ok) == At("i_make_splici")

\* what follows std::fs::write(&info_file, ..).with_context(..)?
AfterWriteInfo(ok) == IF ok THEN At("i_make_splici") ELSE At("done")

\* std::fs::write(&info_file, ..).with_context(|| "could not write ..")?
IndexWriteInfo ==
  /\ pc = At("i_write_info")
  /\ \E ok \in BOOLEAN :
       /\ info_written' = ok
       /\ fs' = IF ok THEN fs \cup {"output/index_info.json"} ELSE fs
       /\ pc' = AfterWriteInfo(ok)
       /\ outcome' = IF pc' = At("done") THEN Failure("could not write") ELSE outcome
  /\ UNCHANGED <<exe, rp, args, env_home, started, running, exit, max_par,
                 filter_meth, pl_res, vc>>

\* let _cres = cmd.output()?  (the start of pyroe make-splici)
IndexStartMakeSplici ==
  /\ pc = At("i_make_splici")
  /\ \E spawned \in BOOLEAN :
       IF ~rp["pyroe"].some
       THEN /\ outcome' = Panic("unwrap on None") /\ pc' = At("done")
            /\ UNCHANGED <<started, running>>
       ELSE IF spawned
       THEN /\ started' = Append(started, Proc("make-splici"))
            /\ running' = running \cup {"make-splici"}
            /\ pc' = At("i_make_splici_wait")
            /\ outcome' = outcome
       ELSE /\ outcome' = Failure("IoError") /\ pc' = At("done")
            /\ UNCHANGED <<started, running>>
  /\ UNCHANGED <<exe, rp, args, env_home, fs, info_written, exit, max_par,
                 filter_meth, pl_res, vc>>

\* (mutant) the index workflow checks exit statuses as quant does
IndexStageCheckBails(stage, status) ==
  IF status # 0 THEN StageFailure(stage, status) ELSE Pending

\* what the index workflow does with a stage's exit status: nothing
IndexStageCheck(stage, status) == Pending

\* cmd.output() returns; the status in _cres is not looked at
IndexMakeSpliciExit ==
  /\ pc = At("i_make_splici_wait")
  /\ \E status \in 0..MaxExit :
       /\ exit' = [exit EXCEPT !["make-splici"] = status]
       /\ running' = running \ {"make-splici"}
       /\ outcome' = IndexStageCheck("make-splici", status)
       /\ pc' = IF outcome'.kind = "none" THEN At("i_salmon_index") ELSE At("done")
  /\ UNCHANGED <<exe, rp, args, env_home, fs, info_written, started, max_par,
                 filter_meth, pl_res, vc>>

\* std::thread::available_parallelism(): Err, or Ok(n) with n >= 1
ParUnknown == [known |-> FALSE, n |-> 0]
ParKnown(n) == [known |-> TRUE, n |-> n]
ParChoices == {ParUnknown} \cup {ParKnown(n) : n \in 1..MaxPar}

\* (mutant) the requested count is passed on as it is
ClampThreadsNever(threads, par) == threads

\* if let Ok(max) = available_parallelism() { if threads > max { threads = max } }
ClampThreads(threads, par) ==
  IF par.known /\ threads > par.n THEN par.n ELSE threads

\* salmon_index_cmd ... .arg("--threads").arg(threads).output().expect(..)
IndexStartSalmonIndex ==
  /\ pc = At("i_salmon_index")
  /\ \E par \in ParChoices, spawned \in BOOLEAN :
       /\ max_par' = par
       /\ IF ~rp["salmon"].some
          THEN /\ outcome' = Panic("unwrap on None") /\ pc' = At("done")
               /\ UNCHANGED <<started, running>>
          ELSE IF spawned
          THEN /\ started' = Append(started, ProcT("salmon-index", ClampThreads(args.threads, par)))
               /\ running' = running \cup {"salmon-index"}
               /\ pc' = At("i_salmon_index_wait")
               /\ outcome' = outcome
          ELSE /\ outcome' = Panic("failed to run salmon index") /\ pc' = At("done")
               /\ UNCHANGED <<started, running>>
  /\ UNCHANGED <<exe, rp, args, env_home, fs, info_written, exit, filter_meth, pl_res, vc>>

\* salmon index exits; main falls through to Ok(())
IndexSalmonIndexExit ==
  /\ pc = At("i_salmon_index_wait")
  /\ \E status \in 0..MaxExit :
       /\ exit' = [exit EXCEPT !["salmon-index"] = status]
       /\ running' = running \ {"salmon-index"}
       /\ outcome' = LET c == IndexStageCheck("salmon-index", status) IN
                     IF c.kind = "none" THEN Success ELSE c
       /\ pc' = At("done")
  /\ UNCHANGED <<exe, rp, args, env_home, fs, info_written, started, max_par,
                 filter_meth, pl_res, vc>>

\* ------------------------------------------------------ permit list fetcher

\* (mutant) an unknown chemistry name falls into the 10x v3 arm
ChemistryOfDefaultsV3(c) == IF c = "10xv2" THEN "TenxV2" ELSE "TenxV3"

\* match chemistry.as_str() { "10xv2" => TenxV2, "10xv3" => TenxV3, s => Other(s) }
ChemistryOf(c) ==
  IF c = "10xv2" THEN "TenxV2" ELSE IF c = "10xv3" THEN "TenxV3" ELSE "Other"

\* odir.join(chem_file), relative to $ALEVIN_FRY_HOME
PermitPath(chem) ==
  IF chem = "TenxV2" THEN "plist/10x_v2_permit.txt" ELSE "plist/10x_v3_permit.txt"

\* (mutant) the permit list is downloaded whether or not the file exists
permit_lookup_always_downloads(chem, home_set, files) ==
  IF chem \notin {"TenxV2", "TenxV3"} THEN UnregisteredChemistry
  ELSE IF ~home_set THEN PlConfigError
  ELSE [kind |-> "download", path |-> PermitPath(chem)]

\* get_permit_if_absent up to the point where it returns or starts to download
permit_lookup(chem, home_set, files) ==
  IF chem \notin {"TenxV2", "TenxV3"} THEN UnregisteredChemistry
  ELSE IF ~home_set THEN PlConfigError
  ELSE IF PermitPath(chem) \in files THEN AlreadyPresent(PermitPath(chem))
  ELSE [kind |-> "download", path |-> PermitPath(chem)]

\* ---------------------------------------------------------- quant workflow

\* the else branch of `if unfiltered_pl`: forced_cells, then expect_cells, else knee
FilterFromCounts(a) ==
  IF a.expect_cells.some THEN ExpectCells(a.expect_cells.val)
  ELSE IF a.forced_cells.some THEN ForceCells(a.forced_cells.val)
  ELSE KneeFinding

\* let mut filter_meth = KneeFinding; let chem = ..; if unfiltered_pl {
\* get_permit_if_absent(chem)? .. } else { .. }
QuantFilter ==
  /\ pc = At("q_filter")
  /\ IF args.unfiltered_pl
     THEN LET r == permit_lookup(ChemistryOf(args.chemistry), env_home, fs) IN
          IF r.kind = "UnregisteredChemistry"
          THEN /\ pl_res' = r
               /\ outcome' = Failure("ChemistryError")
               /\ pc' = At("done")
               /\ filter_meth' = filter_meth
          ELSE IF r.kind = "ConfigError"
          THEN /\ pl_res' = r
               /\ outcome' = Failure("ConfigError")
               /\ pc' = At("done")
               /\ filter_meth' = filter_meth
          ELSE IF r.kind = "AlreadyPresent"
          THEN /\ pl_res' = r
               /\ filter_meth' = UnfilteredExternalList(r.path, min_cells)
               /\ pc' = AtStage("q_start", QuantOrder[1])
               /\ outcome' = outcome
          ELSE /\ pc' = At("gp_mkdir")
               /\ UNCHANGED <<pl_res, filter_meth, outcome>>
     ELSE /\ filter_meth' = FilterFromCounts(args)
          /\ pc' = AtStage("q_start", QuantOrder[1])
          /\ UNCHANGED <<pl_res, outcome>>
  /\ UNCHANGED <<exe, rp, args, env_home, fs, info_written, started, running, exit,
                 max_par, vc>>

\* run_fun!(mkdir -p $odir)?
GetPermitMkdir ==
  /\ pc = At("gp_mkdir")
  /\ started' = Append(started, Proc("mkdir"))
  /\ \E ok \in BOOLEAN :
       IF ok
       THEN /\ fs' = fs \cup {"plist"}
            /\ pc' = At("gp_wget")
            /\ UNCHANGED <<pl_res, outcome>>
       ELSE /\ pl_res' = PlIoError
            /\ outcome' = Failure("CmdError")
            /\ pc' = At("done")
            /\ fs' = fs
  /\ UNCHANGED <<exe, rp, args, env_home, info_written, running, exit, max_par,
                 filter_meth, vc>>

\* let r = dl_cmd.output()?  (the start of wget)
GetPermitStartWget ==
  /\ pc = At("gp_wget")
  /\ \E spawned \in BOOLEAN :
       IF spawned
       THEN /\ started' = Append(started, Proc("wget"))
            /\ running' = running \cup {"wget"}
            /\ pc' = At("gp_wget_wait")
            /\ UNCHANGED <<pl_res, outcome>>
       ELSE /\ pl_res' = PlIoError
            /\ outcome' = Failure("IoError")
            /\ pc' = At("done")
            /\ UNCHANGED <<started, running>>
  /\ UNCHANGED <<exe, rp, args, env_home, fs, info_written, exit, max_par,
                 filter_meth, vc>>

\* (mutant) a download that exited non-zero is reported as an error
DownloadResultChecked(status, p) ==
  IF status = 0 THEN DownloadSuccessful(p) ELSE PlIoError

\* what get_permit_if_absent returns once dl_cmd.output() has returned Ok(r):
\* r is not looked at
DownloadResult(status, p) == DownloadSuccessful(p)

\* wget exits (a successful download leaves the file; a failed one may leave
\* one too); return Ok(DownloadSuccessful(odir.join(chem_file))), and main
\* sets filter_meth from it
GetPermitWgetExit ==
  /\ pc = At("gp_wget_wait")
  /\ \E status \in 0..MaxExit, created \in BOOLEAN :
       /\ (status = 0 => created)
       /\ LET p == PermitPath(ChemistryOf(args.chemistry))
              r == DownloadResult(status, p) IN
          /\ fs' = IF created THEN fs \cup {p} ELSE fs
          /\ pl_res' = r
          /\ IF r.kind = "DownloadSuccessful"
             THEN /\ filter_meth' = UnfilteredExternalList(r.path, min_cells)
                  /\ pc' = AtStage("q_start", QuantOrder[1])
                  /\ outcome' = outcome
             ELSE /\ filter_meth' = filter_meth
                  /\ pc' = At("done")
                  /\ outcome' = Failure("IoError")
       /\ exit' = [exit EXCEPT !["wget"] = status]
       /\ running' = running \ {"wget"}
  /\ UNCHANGED <<exe, rp, args, env_home, info_written, started, max_par, vc>>

QuantIndex(stage) == CHOOSE i \in 1..4 : QuantOrder[i] = stage

\* the tool a quant stage runs: salmon for the mapping, alevin-fry for the rest
StageTool(stage) == IF stage = "mapping" THEN "salmon" ELSE "alevin_fry"

\* (mutant) collate built before generate-permit-list
NextStageSwapped(stage) ==
  IF stage = "mapping" THEN "collate"
  ELSE IF stage = "collate" THEN "generate-permit-list"
  ELSE IF stage = "generate-permit-list" THEN "quant" ELSE ""

\* the stage whose command main builds after `stage` succeeded ("" after the last)
NextStage(stage) ==
  IF QuantIndex(stage) < 4 THEN QuantOrder[QuantIndex(stage) + 1] ELSE ""

\* (mutant) the status of collate is not checked
StageCheckSkipsCollate(stage, status) ==
  IF status # 0 /\ stage # "collate" THEN StageFailure(stage, status) ELSE Pending

\* if !out.status.success() { bail!("<stage> failed with exit status {:?}", out.status) }
StageCheck(stage, status) ==
  IF status # 0 THEN StageFailure(stage, status) ELSE Pending

\* <cmd>.output().expect(..)  (the start of a stage's process)
QuantStart(stage) ==
  /\ pc = AtStage("q_start", stage)
  /\ \E spawned \in BOOLEAN :
       IF ~rp[StageTool(stage)].some
       THEN /\ outcome' = Panic("unwrap on None") /\ pc' = At("done")
            /\ UNCHANGED <<started, running>>
       ELSE IF spawned
       THEN /\ started' = Append(started,
                 IF stage = "generate-permit-list" THEN ProcF(stage, filter_meth)
                 ELSE ProcT(stage, args.threads))
            /\ running' = running \cup {stage}
            /\ pc' = AtStage("q_wait", stage)
            /\ outcome' = outcome
       ELSE /\ outcome' = Panic("could not execute") /\ pc' = At("done")
            /\ UNCHANGED <<started, running>>
  /\ UNCHANGED <<exe, rp, args, env_home, fs, info_written, exit, max_par,
                 filter_meth, pl_res, vc>>

\* the stage's process exits and its status is checked
QuantExit(stage) ==
  /\ pc = AtStage("q_wait", stage)
  /\ \E status \in 0..MaxExit :
       LET c == StageCheck(stage, status) IN
       /\ exit' = [exit EXCEPT ![stage] = status]
       /\ running' = running \ {stage}
       /\ IF c.kind # "none"
          THEN outcome' = c /\ pc' = At("done")
          ELSE IF NextStage(stage) = ""
          THEN outcome' = Success /\ pc' = At("done")
          ELSE outcome' = outcome /\ pc' = AtStage("q_start", NextStage(stage))
  /\ UNCHANGED <<exe, rp, args, env_home, fs, info_written, started, max_par,
                 filter_meth, pl_res, vc>>

\* ------------------------------------------------------------ specification

VcIdle == [phase |-> "idle", tool |-> "salmon", out |-> OutErrNoSpawn, res |-> VcErr("")]

\* the permit-list cache as a run may find it
InitialFs ==
  { {}, {"plist"}, {"plist", PermitPath("TenxV2")}, {"plist", PermitPath("TenxV3")},
    {"plist", PermitPath("TenxV2"), PermitPath("TenxV3")} }

InitRun ==
  /\ pc = AtStage("search", ToolOrder[1])
  /\ exe = [t \in Tools |-> "unset"]
  /\ rp = [t \in Tools |-> NoProg]
  /\ args = NoArgs
  /\ info_written = FALSE
  /\ started = <<>>
  /\ running = {}
  /\ exit = [n \in ExitNames |-> -1]
  /\ max_par = ParUnknown
  /\ filter_meth = KneeFinding
  /\ pl_res = PlNone
  /\ outcome = Pending

Init ==
  /\ InitRun
  /\ env_home \in BOOLEAN
  /\ fs \in InitialFs
  /\ vc = VcIdle

Next ==
  \/ \E t \in Tools : Search(t)
  \/ \E t \in Tools : Probe(t)
  \/ CliParse
  \/ IndexMkdirOutput
  \/ IndexMkdirRef
  \/ IndexWriteInfo
  \/ IndexStartMakeSplici
  \/ IndexMakeSpliciExit
  \/ IndexStartSalmonIndex
  \/ IndexSalmonIndexExit
  \/ QuantFilter
  \/ GetPermitMkdir
  \/ GetPermitStartWget
  \/ GetPermitWgetExit
  \/ \E s \in QuantStages : QuantStart(s)
  \/ \E s \in QuantStages : QuantExit(s)

Spec == Init /\ [][Next]_vars

\* ------------------------------------------ one call of the version check

Comps == (0..MaxComp) \cup {10}
Dot == <<".">>
CoreTexts == { FormatNat(a) \o Dot \o FormatNat(b) \o Dot \o FormatNat(c) :
                 a \in Comps, b \in Comps, c \in Comps }
TagTexts == { <<>>, <<"-", "a">>, <<"+", "b">> }
MalformedTokens ==
  { <<"1", ".", "5">>, <<"v", "1", ".", "5", ".", "1">>, <<"0", "1", ".", "5", ".", "1">>,
    <<"1", ".", "5", ".", "1", ".", "0">>, <<"1", ".", "5", ".", "1", "-">>,
    <<"1", ".", "5", ".", "1", "-", "0", "1">>, <<"1", ".", ".", "1">>,
    <<"1", ".", "6", ".", "0", "-", "a", "+", "b">>, <<"0", ".", "7", ".", "0", "-", "a", ".", "0">> }
VersionTokens == { c \o g : c \in CoreTexts, g \in TagTexts } \cup MalformedTokens
VersionTexts ==
  { <<>>, <<" ", "\n">> } \cup
  UNION { { tok, Str_s \o tok, Str_s \o tok \o <<"\n">>, tok \o <<" ", "b">> } : tok \in VersionTokens }
VersionOutputs == { OutErrNoSpawn, OutErrExit } \cup { OutOk(x) : x \in VersionTexts }

InitVer ==
  /\ InitRun
  /\ env_home = FALSE
  /\ fs = {}
  /\ vc \in { [phase |-> "input", tool |-> t, out |-> o, res |-> VcErr("")] :
                t \in Tools, o \in VersionOutputs }

\* let v = check_version_constraints(<range of the tool>, sr)
CheckVersion ==
  /\ vc.phase = "input"
  /\ vc' = [vc EXCEPT !.phase = "done",
                      !.res = check_version_constraints(ReqOf(vc.tool), vc.out)]
  /\ UNCHANGED <<pc, exe, rp, args, env_home, fs, info_written, started, running, exit,
                 max_par, filter_meth, pl_res, outcome>>

NextVer == CheckVersion

SpecVer == InitVer /\ [][NextVer]_vars

\* ------------------------------------------------------------------ claims

Done == pc = At("done")
StartedNames == Names(started)
\* the position of the first process named n in the sequence (0: none)
Pos(seq, n) ==
  IF \E i \in 1..Len(seq) : seq[i].name = n
  THEN CHOOSE i \in 1..Len(seq) : seq[i].name = n /\ \A j \in 1..(i - 1) : seq[j].name # n
  ELSE 0

\* C1: in the quant workflow, whatever the four stages' exit statuses are, a
\* stage that exited non-zero ends the run with an error naming that stage and
\* its status, and no later stage's process is ever started.
C1_AbortOnFirstFailure ==
  \A i \in 1..4 :
    exit[QuantOrder[i]] > 0 =>
      /\ Done
      /\ outcome.kind = "err" /\ outcome.what = "StageFailure"
      /\ outcome.stage = QuantOrder[i] /\ outcome.status = exit[QuantOrder[i]]
      /\ \A j \in (i + 1)..4 : QuantOrder[j] \notin StartedNames

C1_Witness ==
  /\ exit["mapping"] = 0 /\ exit["generate-permit-list"] = 0 /\ exit["collate"] = 2
  /\ outcome = StageFailure("collate", 2)
  /\ "quant" \notin StartedNames

\* C2: the quant stages are started in the order mapping, generate-permit-list,
\* collate, quant, each at most once, each only after the stage before it has
\* exited, and never are two child processes running at once.
C2_StrictSequence ==
  /\ \A i \in 1..4 : Count(started, QuantOrder[i]) <= 1
  /\ \A i \in 2..4 :
       QuantOrder[i] \in StartedNames =>
         /\ Pos(started, QuantOrder[i - 1]) > 0
         /\ Pos(started, QuantOrder[i - 1]) < Pos(started, QuantOrder[i])
         /\ exit[QuantOrder[i - 1]] # -1
  /\ Cardinality(running) <= 1
  /\ (running # {} => running = {started[Len(started)].name})
  /\ \A s \in running : exit[s] = -1

C2_Witness ==
  /\ running = {"quant"}
  /\ Len(started) >= 4
  /\ \A i \in 1..3 : exit[QuantOrder[i]] = 0

\* the number of filter flags on the command line, counted flag by flag
Bit(b) == IF b THEN 1 ELSE 0
FlagsGiven(a) ==
  Bit(a.knee) + Bit(a.unfiltered_pl) + Bit(a.forced_cells.some) + Bit(a.expect_cells.some)

InQuantStages == pc.at \in {"q_start", "q_wait"} \/ "mapping" \in StartedNames

\* the filter method is the one the single supplied flag names
C3_OneMethod ==
  (args.command = "quant" /\ InQuantStages) =>
    /\ FlagsGiven(args) = 1
    /\ (args.knee => filter_meth = KneeFinding)
    /\ (args.forced_cells.some => filter_meth = ForceCells(args.forced_cells.val))
    /\ (args.expect_cells.some => filter_meth = ExpectCells(args.expect_cells.val))
    /\ (args.unfiltered_pl =>
          /\ filter_meth.kind = "UnfilteredExternalList"
          /\ filter_meth.path = PermitPath(ChemistryOf(args.chemistry))
          /\ filter_meth.n = min_cells)

C3_Rejected ==
  (args.command = "quant" /\ FlagsGiven(args) # 1) => (Done /\ outcome = UsageError)

\* C3 as stated: a valid quant command line (exactly one of knee,
\* unfiltered-pl, forced-cells, expect-cells) selects exactly one FilterMethod,
\* and an invalid one is rejected before any subprocess runs.
C3_Original ==
  /\ C3_OneMethod
  /\ C3_Rejected
  /\ (outcome = UsageError => started = <<>>)

\* C3 (amended): a valid quant command line selects exactly the FilterMethod of
\* its one flag, and an invalid one is rejected before any pipeline stage, mkdir
\* or download runs: the only subprocesses run by then are the three
\* `--version` probes of get_required_progs, which precede Cli::parse.
C3_Amended ==
  /\ C3_OneMethod
  /\ C3_Rejected
  /\ (outcome = UsageError =>
        /\ StartedNames = ProbeNames
        /\ Len(started) = 3)

C3_Witness ==
  /\ outcome = UsageError
  /\ args.forced_cells.some /\ args.expect_cells.some
  /\ Len(started) = 3

\* the bounds of a tool's accepted range, as major.minor.patch triples
Lo(t) == IF t = "salmon" THEN <<1, 5, 1>> ELSE IF t = "alevin_fry" THEN <<0, 4, 1>> ELSE <<0, 6, 2>>
Hi(t) == IF t = "salmon" THEN <<2, 0, 0>> ELSE <<1, 0, 0>>
TripleLess(a, b) ==
  \/ a[1] < b[1]
  \/ a[1] = b[1] /\ a[2] < b[2]
  \/ a[1] = b[1] /\ a[2] = b[2] /\ a[3] < b[3]
Triple(v) == <<v.major, v.minor, v.patch>>
\* lo <= major.minor.patch < hi
NumInRange(t, v) == ~TripleLess(Triple(v), Lo(t)) /\ TripleLess(Triple(v), Hi(t))

Validated(t) ==
  /\ rp[t].some
  /\ exe[t] \in {"env", "path"} /\ rp[t].exe_path = exe[t]
  /\ VersionParse(rp[t].version).ok
  /\ NumInRange(t, VersionParse(rp[t].version))

\* C4: when a tool cannot be found, or its version is unparseable or out of
\* range, the run ends unsuccessfully (an error return, or the panic of the
\* unwrap for an unparseable version) with no stage of index or quant started;
\* whenever a pipeline stage is started, all three RequiredPrograms entries
\* are present with a validated version.
C4_FailFast ==
  /\ (StartedNames \cap PipelineStages # {} => \A t \in Tools : Validated(t))
  /\ (pc.at \notin {"search", "probe"} /\ ~Done => \A t \in Tools : Validated(t))
  /\ ((Done /\ \E t \in Tools : ~rp[t].some) =>
        /\ outcome.kind \in {"err", "panic"}
        /\ StartedNames \subseteq ProbeNames)

C4_Witness ==
  /\ Done /\ outcome = Failure("VersionError")
  /\ rp["salmon"].some /\ rp["alevin_fry"].some /\ ~rp["pyroe"].some
  /\ Len(started) = 3

\* the last whitespace-delimited token of a text, found from its end
HasToken(x) == \E i \in 1..Len(x) : ~IsWhitespace(x[i])
TokenEnd(x) == CHOOSE j \in 1..Len(x) :
  ~IsWhitespace(x[j]) /\ \A k \in (j + 1)..Len(x) : IsWhitespace(x[k])
TokenStart(x) == CHOOSE i \in 1..TokenEnd(x) :
  /\ \A k \in i..TokenEnd(x) : ~IsWhitespace(x[k])
  /\ (i > 1 => IsWhitespace(x[i - 1]))
FinalToken(x) == SubSeq(x, TokenStart(x), TokenEnd(x))

\* semantic-versioning precedence against a bound without pre-release tag:
\* major, minor, patch numerically, and a pre-release version lower than the
\* release with the same major.minor.patch
PrecLessThanBound(v, b) == TripleLess(Triple(v), b) \/ (Triple(v) = b /\ v.pre # <<>>)
PrecSatisfies(t, v) == ~PrecLessThanBound(v, Lo(t)) /\ PrecLessThanBound(v, Hi(t))

VcToken == VersionParse(FinalToken(vc.out.text))
VcHasVersion == vc.out.ok /\ HasToken(vc.out.text) /\ VcToken.ok

\* C5 as stated: check_version_constraints returns the parsed version iff the
\* last whitespace-delimited token of the output satisfies the tool's range
\* per semantic-versioning precedence.
C5_Original ==
  vc.phase = "done" =>
    /\ (vc.res.kind = "ok" <=> (VcHasVersion /\ PrecSatisfies(vc.tool, VcToken)))
    /\ (vc.res.kind = "ok" => vc.res.version = VcToken)

\* C5 (amended): check_version_constraints returns the parsed version iff the
\* last whitespace-delimited token of the output parses as a semantic version
\* without a pre-release tag whose major.minor.patch lies in the tool's range
\* (aligner >=1.5.1 <2.0.0, cell-caller >=0.4.1 <1.0.0, reference-builder
\* >=0.6.2 <1.0.0); a version with a pre-release tag is rejected even when
\* precedence puts it inside the range, build metadata is ignored, and a token
\* that does not parse makes the unwrap panic.
C5_Amended ==
  vc.phase = "done" =>
    /\ (vc.res.kind = "ok" <=>
          (VcHasVersion /\ VcToken.pre = <<>> /\ NumInRange(vc.tool, VcToken)))
    /\ (vc.res.kind = "ok" => vc.res.version = VcToken)
    /\ (vc.res.kind = "panic" <=> (vc.out.ok /\ HasToken(vc.out.text) /\ ~VcToken.ok))

C5_Witness ==
  /\ vc.phase = "done" /\ vc.tool = "salmon"
  /\ VcHasVersion /\ VcToken.pre # <<>> /\ PrecSatisfies("salmon", VcToken)
  /\ vc.res.kind = "err"

Recognized(c) == c \in {"10xv2", "10xv3"}
PermitFileOf(c) == IF c = "10xv2" THEN "plist/10x_v2_permit.txt" ELSE "plist/10x_v3_permit.txt"
InGetPermit == args.command = "quant" /\ args.unfiltered_pl
\* the one case in which get_permit_if_absent may create the directory and download
MayDownload ==
  /\ InGetPermit /\ Recognized(args.chemistry) /\ env_home
  /\ PermitFileOf(args.chemistry) \notin fs
NoDownloadStarted == "mkdir" \notin StartedNames /\ "wget" \notin StartedNames

C6_Results ==
  InGetPermit =>
    /\ (pl_res.kind = "DownloadSuccessful" =>
          /\ Recognized(args.chemistry) /\ env_home
          /\ pl_res.path = PermitFileOf(args.chemistry)
          /\ "plist" \in fs
          /\ Count(started, "wget") = 1 /\ exit["wget"] # -1)
    /\ (pl_res.kind = "AlreadyPresent" =>
          /\ Recognized(args.chemistry) /\ env_home
          /\ pl_res.path = PermitFileOf(args.chemistry) /\ pl_res.path \in fs
          /\ NoDownloadStarted)
    /\ (pl_res.kind = "UnregisteredChemistry" =>
          ~Recognized(args.chemistry) /\ NoDownloadStarted)
    /\ (pl_res.kind = "ConfigError" =>
          Recognized(args.chemistry) /\ ~env_home /\ NoDownloadStarted)

\* a step of get_permit_if_absent that creates a path or starts mkdir or wget
C6_Touches ==
  \/ fs' # fs
  \/ /\ Len(started') > Len(started)
     /\ started'[Len(started')].name \in {"mkdir", "wget"}

\* the call in a state where it must not download: it returns at once
C6_Returns ==
  (pc = At("q_filter") /\ InGetPermit /\ ~MayDownload) =>
    /\ fs' = fs /\ started' = started /\ running' = running
    /\ pl_res' = IF ~Recognized(args.chemistry) THEN UnregisteredChemistry
                 ELSE IF ~env_home THEN PlConfigError
                 ELSE AlreadyPresent(PermitFileOf(args.chemistry))

\* C6: get_permit_if_absent creates the cache directory and launches the
\* download only for a recognized chemistry with the cache-root variable set
\* and the permit-list file absent, and DownloadSuccessful(path) is returned
\* only after that download; in every other case it returns at once, with the
\* filesystem untouched and nothing launched: UnregisteredChemistry for any
\* other chemistry, else a ConfigError when the variable is unset, else
\* AlreadyPresent(path) when the file exists.
C6_FrameEffect ==
  /\ []C6_Results
  /\ [][(InGetPermit /\ C6_Touches) => MayDownload]_vars
  /\ [][C6_Returns]_vars

C6_Witness ==
  /\ InGetPermit /\ pl_res.kind = "DownloadSuccessful"
  /\ exit["wget"] = 0 /\ pl_res.path \in fs

\* C7: an accepted quant command line with --unfiltered-pl and a chemistry other than 10xv2 / 10xv3
\* fails with the chemistry error before the mapping or any other stage starts.
C7_UnknownChemistry ==
  (args.command = "quant" /\ FlagsGiven(args) = 1 /\ args.unfiltered_pl
     /\ ~Recognized(args.chemistry) /\ pc # At("q_filter")) =>
    /\ Done /\ outcome = Failure("ChemistryError")
    /\ StartedNames = ProbeNames
    /\ running = {}

C7_Witness ==
  /\ args.command = "quant" /\ args.unfiltered_pl /\ args.chemistry = "other"
  /\ outcome = Failure("ChemistryError")

MinOf(a, b) == CHOOSE m \in {a, b} : m <= a /\ m <= b

\* C8: whenever the available parallelism is known, the thread count given to
\* the aligner's index subcommand is min(requested, available parallelism).
C8_ThreadClamp ==
  \A i \in 1..Len(started) :
    (started[i].name = "salmon-index" /\ max_par.known) =>
      started[i].threads = MinOf(args.threads, max_par.n)

C8_Witness ==
  /\ "salmon-index" \in StartedNames
  /\ max_par.known /\ args.threads > max_par.n

\* C9: the index workflow checks no exit status: the aligner index is started
\* after the reference-builder has exited, whatever its status; the run ends
\* successfully whatever the two statuses are; each of the two is started
\* once, in that order.
C9_IndexUnchecked ==
  args.command = "index" =>
    /\ Count(started, "make-splici") <= 1 /\ Count(started, "salmon-index") <= 1
    /\ ("salmon-index" \in StartedNames =>
          /\ Pos(started, "make-splici") > 0
          /\ Pos(started, "make-splici") < Pos(started, "salmon-index")
          /\ exit["make-splici"] # -1)
    /\ (exit["make-splici"] # -1 =>
          \/ pc = At("i_salmon_index")
          \/ "salmon-index" \in StartedNames
          \/ outcome = Panic("failed to run salmon index"))
    /\ (exit["salmon-index"] # -1 => Done /\ outcome = Success)
    /\ (outcome = Success =>
          Count(started, "make-splici") = 1 /\ Count(started, "salmon-index") = 1)
    /\ outcome.what # "StageFailure"

C9_Witness ==
  /\ args.command = "index" /\ outcome = Success
  /\ exit["make-splici"] = 1 /\ exit["salmon-index"] = 2

\* C10: in the index workflow neither the reference-builder nor the aligner
\* index is started before index_info.json has been written, and a failed
\* write aborts the run with neither started.
C10_RecordFirst ==
  args.command = "index" =>
    /\ (StartedNames \cap IndexStages # {} =>
          info_written /\ "output/index_info.json" \in fs)
    /\ (pc.at \in {"i_make_splici", "i_make_splici_wait", "i_salmon_index",
                   "i_salmon_index_wait"} => info_written)
    /\ (outcome = Failure("could not write") =>
          Done /\ ~info_written /\ StartedNames \cap IndexStages = {})

C10_Witness ==
  /\ args.command = "index" /\ outcome = Failure("could not write")
  /\ Len(started) = 5

\* the generate-permit-list process was given the filter method f
GplStartedWith(f) ==
  \E i \in 1..Len(started) :
    started[i].name = "generate-permit-list" /\ started[i].filter = f

\* C11: in quant with --unfiltered-pl, a recognized chemistry and an absent
\* permit-list file, the exit status of the download utility is never
\* inspected: once it has exited, zero or non-zero, get_permit_if_absent has
\* returned DownloadSuccessful(path), the filter method is the unfiltered list
\* at that path, and the run goes on to start the mapping stage (and hands that
\* path to generate-permit-list); it never ends with an error of the download.
C11_DownloadUnchecked ==
  exit["wget"] # -1 =>
    /\ pl_res = DownloadSuccessful(PermitFileOf(args.chemistry))
    /\ filter_meth = UnfilteredExternalList(PermitFileOf(args.chemistry), min_cells)
    /\ \/ pc = AtStage("q_start", "mapping")
       \/ "mapping" \in StartedNames
       \/ outcome = Panic("could not execute")
    /\ outcome # Failure("IoError")
    /\ ("generate-permit-list" \in StartedNames => GplStartedWith(filter_meth))

C11_Witness ==
  /\ exit["wget"] = 1
  /\ PermitFileOf(args.chemistry) \notin fs
  /\ pl_res.kind = "DownloadSuccessful"
  /\ GplStartedWith(UnfilteredExternalList(PermitFileOf(args.chemistry), min_cells))

====
